---- MODULE Spec2Model ----
(***************************************************************************)
(* Model of the navigation core of src/pdf.js: the History class (the      *)
(* back/forward stack of the view), the search pipeline of View (search,   *)
(* #searchBook, #searchSection, clearSearch, addAnnotation), the chapter   *)
(* index of the PDF adapter (flatten, getIndexList, getTocIndex,           *)
(* getTocContent), the text of a page (getIndexContent), the relocate      *)
(* handler, goTo and select, and getCFI / resolveCFI.                      *)
(*                                                                         *)
(* JavaScript values are encoded as records [t, v]:                        *)
(*   t = "num"  an absolute section index, v the number                    *)
(*   t = "cfi"  a string (a CFI or an href), v the number of the string    *)
(*   t = "frac" an object {fraction: v}                                    *)
(*   t = "undef" the value undefined                                       *)
(* Fractions are numerators over a fixed denominator, so v = 0 is the      *)
(* fraction 0, the only falsy one.  === compares primitives by value and   *)
(* objects by identity.  The history only ever compares the pushed value   *)
(* with the entry at the current position, so the identity of an object    *)
(* is modelled by one input of pushState: whether the caller passes the    *)
(* very object stored at the current position.                             *)
(***************************************************************************)
EXTENDS Integers, Sequences, FiniteSets, TLC

\* ------------------------------------------------------------------ bounds
MaxLen == 3        \* longest history stack explored
MaxFrac == 1       \* fraction numerators 0..MaxFrac
NSections == 2     \* sections of the open book
MaxHits == 1       \* most matches the matcher yields in one section
MaxNodes == 3      \* most entries of the outline of the document
NPages == 3        \* pages of the PDF document (pdf.numPages)
MaxItems == 3      \* most text items of a page

VARIABLES
    arr,       \* History.#arr, positions 0..length-1 stored at 1..Len(arr)
    index,     \* History.#index
    neg1,      \* the property "-1" of #arr (written by replaceState when #index = -1)
    events,    \* notifications dispatched by the last operation, in order
    op,        \* the last operation: [name, x]
    pre,       \* #arr, #index and property "-1" before the last operation
    backPre,   \* state before back() while the calls since are back() [, forward()]
    secs,          \* secs[i]: section i has a createDocument accessor
    pc,            \* pc[s]: where the generator of search s is suspended
    cur,           \* cur[s]: the section #searchBook of search s is at
    hits,          \* hits[s]: subitems.length of that section
    out,           \* out[s]: the items search s has yielded, in order
    matched,       \* matched[s][i]: matches the matcher of search s found in
                   \* section i, NotMatched before it has run there
    searchResults, \* View.#searchResults: key -> list of annotation records
    resolves,      \* resolves[v]: resolveNavigation finds a location for v
    loaded,        \* sections the renderer holds an overlayer for
    overlay,       \* values drawn on the overlayers
    undeleted,     \* records passed to addAnnotation by a search and never
                   \* passed to deleteAnnotation
    opts,          \* opts[s]: opts.index of search s, UndefKey for the whole book
    attached,      \* attached[s]: the list search s pushes matches to is the
                   \* list the registry holds under opts.index
    toc,           \* book.toc: the outline tree, or NoOutline
    flat,          \* flatten(book.toc) as computed by getIndexList
    hrefIndex,     \* what getHrefIndex gave for each kept entry, in order
    indexList,     \* the promise book.getIndexList
    contentMap,    \* book.contentMap: path -> chapter text
    rpc,           \* rpc[h]: where the handler of relocate event h is
    rev,           \* rev[h]: the detail { index, reason } of event h
    rtoc,          \* rtoc[h]: what getTocIndex gave handler h
    rcontent,      \* rcontent[h]: the text getTocContent has built for h
    lastLocation,  \* View.lastLocation
    emitted,       \* the relocate notifications emitted, in order
    extractions,   \* how many times getIndexContent has extracted a page
    nav,           \* the last goTo or select call, if no operation came after
    ident,         \* an identifier on its way through getCFI and resolveNavigation
    page           \* the text items of a page and the text getIndexContent gives

hvars == <<arr, index, neg1, events, op, pre, backPre>>
qvars == <<opts, attached>>
svars == <<secs, pc, cur, hits, out, matched, searchResults, resolves, loaded,
           overlay, undeleted, qvars>>
tvars == <<toc, flat, hrefIndex, indexList>>
rvars == <<contentMap, rpc, rev, rtoc, rcontent, lastLocation, emitted, extractions>>
nvars == <<nav>>
cvars == <<ident>>
pvars == <<page>>
vars == <<hvars, svars, tvars, rvars, nvars, cvars, pvars>>

\* ------------------------------------------------------------ JS values
Undef == [t |-> "undef", v |-> 0]
Num(n) == [t |-> "num", v |-> n]
Cfi(n) == [t |-> "cfi", v |-> n]
Frac(f) == [t |-> "frac", v |-> f]
\* a string that is not a CFI: the href of a destination
Href(n) == [t |-> "href", v |-> n]
\* a target on which resolution throws: null, or a CFI that does not parse
Malformed == [t |-> "malformed", v |-> 0]

FracObjects == {Frac(f) : f \in 0..MaxFrac}
Entries == {Num(0), Cfi(0)} \cup FracObjects

NoFraction == -1
\* e.fraction: undefined on numbers and strings
Fraction(e) == IF e.t = "frac" THEN e.v ELSE NoFraction
\* truthiness of a fraction property: undefined and 0 are falsy
Truthy(f) == f # NoFraction /\ f # 0

\* last === x, where same tells whether x is the object stored as last
StrictEq(last, x, same) == IF x.t = "frac" THEN same ELSE last = x

\* ------------------------------------------------------------- History
Snapshot == [arr |-> arr, index |-> index, neg1 |-> neg1]
NoSnapshot == [arr |-> <<>>, index |-> -2, neg1 |-> Undef]

\* this.#arr[i]
At(a, n1, i) ==
    IF i = -1 THEN n1
    ELSE IF i >= 0 /\ i < Len(a) THEN a[i + 1]
    ELSE Undef

\* last === x || last?.fraction && last.fraction === x.fraction
IsDuplicate(last, x, same) ==
    \/ StrictEq(last, x, same)
    \/ Truthy(Fraction(last)) /\ Fraction(last) = Fraction(x)

\* this.#arr[i] = x for 0 <= i <= length
SetAt(a, i, x) ==
    IF i < Len(a) THEN [a EXCEPT ![i + 1] = x] ELSE Append(a, x)

SetLength_NoTruncate(a, n) == a

\* this.#arr.length = n
SetLength(a, n) == SubSeq(a, 1, n)

BackBlocked_OffByOne(i) == i < 0

\* if (index <= 0) return
BackBlocked(i) == i <= 0

\* if (index >= this.#arr.length - 1) return
ForwardBlocked(a, i) == i >= Len(a) - 1

ForwardDetail_Stale(a, n1, i) == At(a, n1, i)

\* detail of the popstate event of forward(): { state: this.#arr[index + 1] }
ForwardDetail(a, n1, i) == At(a, n1, i + 1)

\* detail of the popstate event of back(): { state: this.#arr[index - 1] }
BackDetail(a, n1, i) == At(a, n1, i - 1)

IndexChange == [type |-> "index-change", state |-> Undef]
PopState(s) == [type |-> "popstate", state |-> s]

canGoBack == index > 0
canGoForward == index < Len(arr) - 1

pushState(x, same) ==
    /\ index + 1 < MaxLen
    /\ same => (x.t = "frac" /\ At(arr, neg1, index) = x)
    /\ op' = [name |-> "pushState", x |-> x]
    /\ pre' = Snapshot
    /\ backPre' = NoSnapshot
    /\ IF IsDuplicate(At(arr, neg1, index), x, same)
       THEN /\ UNCHANGED <<arr, index, neg1>>
            /\ events' = <<>>
       ELSE /\ arr' = SetLength(SetAt(arr, index + 1, x), index + 2)
            /\ index' = index + 1
            /\ neg1' = neg1
            /\ events' = <<IndexChange>>

replaceState_Truncate(x) ==
    /\ op' = [name |-> "replaceState", x |-> x]
    /\ pre' = Snapshot
    /\ backPre' = NoSnapshot
    /\ events' = <<>>
    /\ index' = index
    /\ IF index = -1
       THEN neg1' = x /\ arr' = arr
       ELSE arr' = SetLength(SetAt(arr, index, x), index + 1) /\ neg1' = neg1

replaceState(x) ==
    /\ op' = [name |-> "replaceState", x |-> x]
    /\ pre' = Snapshot
    /\ backPre' = NoSnapshot
    /\ events' = <<>>
    /\ index' = index
    /\ IF index = -1
       THEN neg1' = x /\ arr' = arr
       ELSE arr' = SetAt(arr, index, x) /\ neg1' = neg1

back ==
    /\ op' = [name |-> "back", x |-> Undef]
    /\ pre' = Snapshot
    /\ UNCHANGED <<arr, neg1>>
    /\ IF BackBlocked(index)
       THEN /\ index' = index
            /\ events' = <<>>
            /\ backPre' = NoSnapshot
       ELSE /\ index' = index - 1
            /\ events' = <<PopState(BackDetail(arr, neg1, index)), IndexChange>>
            /\ backPre' = Snapshot

forward ==
    /\ op' = [name |-> "forward", x |-> Undef]
    /\ pre' = Snapshot
    /\ UNCHANGED <<arr, neg1>>
    /\ backPre' = IF op.name = "back" THEN backPre ELSE NoSnapshot
    /\ IF ForwardBlocked(arr, index)
       THEN /\ index' = index
            /\ events' = <<>>
       ELSE /\ index' = index + 1
            /\ events' = <<PopState(ForwardDetail(arr, neg1, index)), IndexChange>>

clear_KeepIndex ==
    /\ op' = [name |-> "clear", x |-> Undef]
    /\ pre' = Snapshot
    /\ backPre' = NoSnapshot
    /\ arr' = <<>>
    /\ index' = index
    /\ neg1' = Undef
    /\ events' = <<>>

clear ==
    /\ op' = [name |-> "clear", x |-> Undef]
    /\ pre' = Snapshot
    /\ backPre' = NoSnapshot
    /\ arr' = <<>>
    /\ index' = -1
    /\ neg1' = Undef
    /\ events' = <<>>

\* ------------------------------------------------------- search pipeline
Sections == 0 .. NSections - 1
\* an earlier and a later call of search(); both generators may be live
Searches == {1, 2}

\* the key `undefined` of #searchResults (opts.index of a whole-book search)
UndefKey == -1

EmptyMap == [k \in {} |-> <<>>]

NotMatched == -1

\* SEARCH_PREFIX + getCFI(index, range) of the k-th match in section i
Value(i, k) == <<i, k>>
Values == {Value(i, k) : i \in Sections, k \in 1..MaxHits}
\* the annotation record { value }, tagged with the search that made it
Item(s, i, k) == [value |-> Value(i, k), by |-> s]

Progress(i) == [k |-> "progress", i |-> i, n |-> 0]
Subitems(i, n) == [k |-> "subitems", i |-> i, n |-> n]
Done == [k |-> "done", i |-> -1, n |-> 0]
\* the item { cfi, excerpt } of the k-th match in section i
Match(i, k) == [k |-> "match", i |-> i, n |-> k]

\* every record held by the registry
Registered == UNION {{searchResults[k][j] : j \in 1..Len(searchResults[k])} :
                        k \in DOMAIN searchResults}

\* this.#searchResults.set(k, list)
MapSet(m, k, list) == [x \in DOMAIN m \cup {k} |-> IF x = k THEN list ELSE m[x]]

addAnnotation_IgnoreFailure(ov, ld, item, remove) ==
    IF item.value[1] \in ld
    THEN IF remove THEN ov \ {item.value} ELSE ov \cup {item.value}
    ELSE ov

\* addAnnotation(item, remove) for a search record. resolveNavigation is
\* synchronous and its result is awaited, so the rest runs as a microtask
\* before any other handler: a failed resolution (undefined) throws on the
\* destructuring, otherwise the overlayer of the section, if the renderer
\* holds one, removes or adds the value
addAnnotation(ov, ld, item, remove) ==
    IF resolves[item.value] /\ item.value[1] \in ld
    THEN IF remove THEN ov \ {item.value} ELSE ov \cup {item.value}
    ELSE ov

\* for (const item of list) this.addAnnotation(item, remove)
RECURSIVE addAnnotations(_, _, _, _)
addAnnotations(ov, ld, list, remove) ==
    IF list = <<>> THEN ov
    ELSE addAnnotations(addAnnotation(ov, ld, Head(list), remove), ld,
                        Tail(list), remove)

\* the lists of a map in one sequence (Map iteration; the order of the
\* lists does not matter to removals)
RECURSIVE MapValues(_)
MapValues(m) ==
    IF DOMAIN m = {} THEN <<>>
    ELSE LET k == CHOOSE x \in DOMAIN m : TRUE
         IN m[k] \o MapValues([x \in DOMAIN m \ {k} |-> m[x]])

\* for (const [index, { createDocument }] of sections.entries())
\*     if (!createDocument) continue
\* the sections the loop of #searchBook still visits from section i on
Scannable(from) == {i \in Sections : i >= from /\ secs[i]}
NextScannable(from) == CHOOSE i \in Scannable(from) : \A j \in Scannable(from) : i <= j

\* #searchBook moves on to the next section it can materialize and awaits
\* createDocument(), or falls off the loop so that search yields 'done'
Advance(s, from) ==
    IF Scannable(from) # {}
    THEN /\ pc' = [pc EXCEPT ![s] = "doc"]
         /\ cur' = [cur EXCEPT ![s] = NextScannable(from)]
         /\ out' = out
    ELSE /\ pc' = [pc EXCEPT ![s] = "sentinel"]
         /\ cur' = [cur EXCEPT ![s] = NSections]
         /\ out' = [out EXCEPT ![s] = Append(@, Done)]

\* clearSearch(): deleteAnnotation for every record, then the map is emptied
ClearSearchEffect ==
    /\ overlay' = addAnnotations(overlay, loaded, MapValues(searchResults), TRUE)
    /\ undeleted' = undeleted \ Registered
    /\ searchResults' = EmptyMap
    /\ attached' = [t \in Searches |-> FALSE]

clearSearch ==
    /\ ClearSearchEffect
    /\ UNCHANGED <<secs, pc, cur, hits, out, matched, resolves, loaded, opts>>
    /\ UNCHANGED <<hvars, tvars, rvars, nvars, cvars, pvars>>

\* first next() of the generator of search(opts) with opts.index = i:
\* clearSearch(), then the generator awaits import('./search.js')
search(s, i) ==
    /\ pc[s] = "new"
    /\ \A t \in Searches : t < s => pc[t] # "new"
    /\ ClearSearchEffect
    /\ opts' = [opts EXCEPT ![s] = i]
    /\ pc' = [pc EXCEPT ![s] = "import"]
    /\ UNCHANGED <<secs, cur, hits, out, matched, resolves, loaded>>
    /\ UNCHANGED <<hvars, tvars, rvars, nvars, cvars, pvars>>

\* this.#searchResults.set(k, list) by search s with a new list: the lists
\* other searches had stored under k are no longer in the registry. The
\* list of a whole-book search is never pushed to, so only the list of a
\* single-section search is followed
Attach(s, k) ==
    [t \in Searches |-> IF t = s THEN opts[s] # UndefKey
                        ELSE attached[t] /\ opts[t] # k]

\* the import resolves: the list of opts.index is registered and the
\* for await loop starts #searchBook, or #searchSection, which calls
\* createDocument of the section and throws if it has none
searchImported(s) ==
    /\ pc[s] = "import"
    /\ searchResults' = MapSet(searchResults, opts[s], <<>>)
    /\ attached' = Attach(s, opts[s])
    /\ IF opts[s] = UndefKey
       THEN Advance(s, 0)
       ELSE /\ pc' = [pc EXCEPT ![s] = IF secs[opts[s]] THEN "sdoc" ELSE "failed"]
            /\ UNCHANGED <<cur, out>>
    /\ UNCHANGED <<secs, hits, matched, resolves, loaded, overlay, undeleted, opts>>
    /\ UNCHANGED <<hvars, tvars, rvars, nvars, cvars, pvars>>

documentCreated_Unrequested(s, n) ==
    /\ pc[s] \in {"doc", "progress"}
    /\ hits' = [hits EXCEPT ![s] = n]
    /\ matched' = [matched EXCEPT ![s][cur[s]] = n]
    /\ out' = [out EXCEPT ![s] = Append(@, Progress(cur[s]))]
    /\ pc' = [pc EXCEPT ![s] = "progress"]
    /\ UNCHANGED <<secs, cur, searchResults, resolves, loaded, overlay, undeleted>>
    /\ UNCHANGED <<hvars, tvars, rvars, nvars, cvars, qvars, pvars>>

\* createDocument() resolves, the matcher finds n matches, { progress } is
\* yielded by #searchBook and passed on by search
documentCreated(s, n) ==
    /\ pc[s] = "doc"
    /\ hits' = [hits EXCEPT ![s] = n]
    /\ matched' = [matched EXCEPT ![s][cur[s]] = n]
    /\ out' = [out EXCEPT ![s] = Append(@, Progress(cur[s]))]
    /\ pc' = [pc EXCEPT ![s] = "progress"]
    /\ UNCHANGED <<secs, cur, searchResults, resolves, loaded, overlay, undeleted>>
    /\ UNCHANGED <<hvars, tvars, rvars, nvars, cvars, qvars, pvars>>

\* createDocument() rejects: nothing catches it, the generator throws
documentFailed(s) ==
    /\ pc[s] = "doc"
    /\ pc' = [pc EXCEPT ![s] = "failed"]
    /\ UNCHANGED <<secs, cur, hits, out, matched, searchResults, resolves, loaded, overlay,
                   undeleted>>
    /\ UNCHANGED <<hvars, tvars, rvars, nvars, cvars, qvars, pvars>>

\* result.subitems.map(({ cfi }) => ({ value: SEARCH_PREFIX + cfi }))
SubitemList(s, i, n) == [j \in 1..n |-> Item(s, i, j)]

\* the consumer asks for the next item after a heartbeat of a section with
\* matches: #searchBook yields { index, subitems }, search registers the
\* records, calls addAnnotation for each and yields { label, subitems }
nextSubitems(s) ==
    /\ pc[s] = "progress"
    /\ hits[s] > 0
    /\ LET list == SubitemList(s, cur[s], hits[s])
       IN /\ searchResults' = MapSet(searchResults, cur[s], list)
          /\ overlay' = addAnnotations(overlay, loaded, list, FALSE)
          /\ undeleted' = undeleted \cup {list[j] : j \in 1..hits[s]}
    /\ attached' = [t \in Searches |-> attached[t] /\ opts[t] # cur[s]]
    /\ out' = [out EXCEPT ![s] = Append(@, Subitems(cur[s], hits[s]))]
    /\ pc' = [pc EXCEPT ![s] = "subitems"]
    /\ UNCHANGED <<secs, cur, hits, matched, resolves, loaded, opts>>
    /\ UNCHANGED <<hvars, tvars, rvars, nvars, cvars, pvars>>

nextSection_DropSubitems(s) ==
    /\ pc[s] \in {"progress", "subitems"}
    /\ Advance(s, cur[s] + 1)
    /\ UNCHANGED <<secs, hits, matched, searchResults, resolves, loaded, overlay,
                   undeleted>>
    /\ UNCHANGED <<hvars, tvars, rvars, nvars, cvars, qvars, pvars>>

\* the consumer asks for the next item and the section is finished
nextSection(s) ==
    /\ \/ pc[s] = "progress" /\ hits[s] = 0
       \/ pc[s] = "subitems"
    /\ Advance(s, cur[s] + 1)
    /\ UNCHANGED <<secs, hits, matched, searchResults, resolves, loaded, overlay, undeleted>>
    /\ UNCHANGED <<hvars, tvars, rvars, nvars, cvars, qvars, pvars>>

\* the consumer asks for the next item after 'done': the generator returns
nextReturn(s) ==
    /\ pc[s] = "sentinel"
    /\ pc' = [pc EXCEPT ![s] = "closed"]
    /\ UNCHANGED <<secs, cur, hits, out, matched, searchResults, resolves, loaded, overlay,
                   undeleted>>
    /\ UNCHANGED <<hvars, tvars, rvars, nvars, cvars, qvars, pvars>>

\* list.push(item) by search s: the registry sees the record only while it
\* holds that list
Push(s, item) ==
    IF attached[s]
    THEN MapSet(searchResults, opts[s], Append(searchResults[opts[s]], item))
    ELSE searchResults

\* what search does with the k-th match #searchSection yields: the record
\* is pushed to the list, addAnnotation is called and the item is yielded
YieldMatch(s, k) ==
    LET item == Item(s, opts[s], k)
    IN /\ searchResults' = Push(s, item)
       /\ overlay' = addAnnotation(overlay, loaded, item, FALSE)
       /\ undeleted' = undeleted \cup {item}
       /\ out' = [out EXCEPT ![s] = Append(@, Match(opts[s], k))]
       /\ pc' = [pc EXCEPT ![s] = "match"]

\* #searchSection has no further match: search yields 'done'
YieldDone(s) ==
    /\ out' = [out EXCEPT ![s] = Append(@, Done)]
    /\ pc' = [pc EXCEPT ![s] = "sentinel"]
    /\ UNCHANGED <<searchResults, overlay, undeleted>>

\* createDocument() of the section resolves and the matcher finds n
\* matches in the document: the first is yielded, or 'done' if there is none
sectionCreated(s, n) ==
    /\ pc[s] = "sdoc"
    /\ hits' = [hits EXCEPT ![s] = n]
    /\ matched' = [matched EXCEPT ![s][opts[s]] = n]
    /\ IF n > 0 THEN YieldMatch(s, 1) ELSE YieldDone(s)
    /\ UNCHANGED <<secs, cur, resolves, loaded, qvars>>
    /\ UNCHANGED <<hvars, tvars, rvars, nvars, cvars, pvars>>

\* createDocument() of the section rejects: nothing catches it, the
\* generator throws
sectionFailed(s) ==
    /\ pc[s] = "sdoc"
    /\ pc' = [pc EXCEPT ![s] = "failed"]
    /\ UNCHANGED <<secs, cur, hits, out, matched, searchResults, resolves, loaded, overlay,
                   undeleted>>
    /\ UNCHANGED <<hvars, tvars, rvars, nvars, cvars, qvars, pvars>>

nextMatch_NoSentinel(s) ==
    /\ pc[s] = "match"
    /\ IF Len(out[s]) < hits[s]
       THEN YieldMatch(s, Len(out[s]) + 1)
       ELSE /\ pc' = [pc EXCEPT ![s] = "closed"]
            /\ UNCHANGED <<out, searchResults, overlay, undeleted>>
    /\ UNCHANGED <<secs, cur, hits, matched, resolves, loaded, qvars>>
    /\ UNCHANGED <<hvars, tvars, rvars, nvars, cvars, pvars>>

\* the consumer asks for the next item after a match
nextMatch(s) ==
    /\ pc[s] = "match"
    /\ IF Len(out[s]) < hits[s] THEN YieldMatch(s, Len(out[s]) + 1) ELSE YieldDone(s)
    /\ UNCHANGED <<secs, cur, hits, matched, resolves, loaded, qvars>>
    /\ UNCHANGED <<hvars, tvars, rvars, nvars, cvars, pvars>>

\* #createOverlayer({ doc, index }): a new, empty overlayer for section i,
\* and addAnnotation for every record registered under i
createOverlayer(i) ==
    /\ loaded' = loaded \cup {i}
    /\ overlay' = addAnnotations({v \in overlay : v[1] # i}, loaded \cup {i},
                                 IF i \in DOMAIN searchResults
                                 THEN searchResults[i] ELSE <<>>, FALSE)
    /\ UNCHANGED <<secs, pc, cur, hits, out, matched, searchResults, resolves, undeleted>>
    /\ UNCHANGED <<hvars, tvars, rvars, nvars, cvars, qvars, pvars>>

\* ------------------------------------------------------- chapter index
\* book.toc: outline?.map(makeTOCItem), undefined when pdf.getOutline()
\* gave no outline
NoOutline == [defined |-> FALSE, items |-> <<>>]
Toc(items) == [defined |-> TRUE, items |-> items]

\* the outlines of n entries whose first top-level entry is the k-th child
\* of the entry at path; an entry is { href, subitems }, its href names its
\* place in the outline, and an entry without children has no subitems
RECURSIVE Outline(_, _, _)
Outline(n, path, k) ==
    IF n = 0 THEN {<<>>}
    ELSE UNION {{<<[href |-> Append(path, k), subitems |-> c]>> \o rest :
                    c \in Outline(m - 1, Append(path, k), 1),
                    rest \in Outline(n - m, path, k + 1)} : m \in 1..n}
Outlines == UNION {Outline(n, <<>>, 1) : n \in 0..MaxNodes}

\* an array nested in an array
Arr(e) == [k |-> "arr", e |-> e]

WithLevel_Zero(item, level) ==
    [k |-> "obj", href |-> item.href, subitems |-> item.subitems, level |-> 0]

\* a flattened entry { ...item, level }
WithLevel(item, level) ==
    [k |-> "obj", href |-> item.href, subitems |-> item.subitems, level |-> level]

\* Array.prototype.flat(): arrays among the elements are spliced in, one
\* level deep
RECURSIVE Flat1(_)
Flat1(a) ==
    IF a = <<>> THEN <<>>
    ELSE (IF Head(a).k = "arr" THEN Head(a).e ELSE <<Head(a)>>) \o Flat1(Tail(a))

\* flatten(items, level)
RECURSIVE flatten(_, _)
flatten(items, level) ==
    Flat1([i \in 1..Len(items) |->
              IF Len(items[i].subitems) > 0
              THEN Arr(Flat1(<<WithLevel(items[i], level),
                                Arr(flatten(items[i].subitems, level + 1))>>))
              ELSE WithLevel(items[i], level)])

\* book.sections of a PDF: one section per page
Pages == 0 .. NPages - 1

\* .filter(item => item.level === 2 || (item.level === 1 && !item.subitems?.length))
KeepInIndex(item) ==
    item.level = 2 \/ (item.level = 1 /\ Len(item.subitems) = 0)

\* getHrefIndex(href) threw or rejected
Unresolved == -1

\* { ...item, index: await book.getHrefIndex(item.href), url }
IndexEntry(item, i) ==
    [href |-> item.href, subitems |-> item.subitems, level |-> item.level,
     index |-> i]

Pending == [state |-> "pending", list |-> <<>>]
Rejected == [state |-> "rejected", list |-> <<>>]
Fulfilled(list) == [state |-> "fulfilled", list |-> list]

\* Promise.all over the entries: rejected as soon as one getHrefIndex is
PromiseAll(tocs, r) ==
    IF \E k \in 1..Len(tocs) : r[k] = Unresolved
    THEN Rejected
    ELSE Fulfilled([k \in 1..Len(tocs) |-> IndexEntry(tocs[k], r[k])])

\* book.getIndexList = getIndexList(book.toc), run once by makePDF; the
\* promise settles when every getHrefIndex has. flatten(undefined) throws
\* inside the async function, which rejects the promise
getIndexList ==
    /\ indexList = Pending
    /\ IF ~toc.defined
       THEN /\ indexList' = Rejected
            /\ UNCHANGED <<flat, hrefIndex>>
       ELSE LET tocs == SelectSeq(flatten(toc.items, 0), KeepInIndex)
            IN /\ flat' = flatten(toc.items, 0)
               /\ \E r \in [1..Len(tocs) -> Pages \cup {Unresolved}] :
                      /\ hrefIndex' = r
                      /\ indexList' = PromiseAll(tocs, r)
    /\ UNCHANGED <<toc, hvars, svars, rvars, nvars, cvars, pvars>>

\* indexList[i]?.index ?? 0 and indexList[i + 1]?.index ?? 0
Start(list, i) == list[i].index
End(list, i) == IF i < Len(list) THEN list[i + 1].index ELSE 0

\* what getTocIndex resolves to: { ...indexList[i], path, start, end }, or
\* undefined when the loop ends without a return
NoRange == [found |-> FALSE, i |-> 0, start |-> 0, end |-> 0]
Range(i, start, end) == [found |-> TRUE, i |-> i, start |-> start, end |-> end]
Path_StartOnly(r) == <<r.start, r.start>>

\* `page:${start}-${end}`
Path(r) == <<r.start, r.end>>

\* the body of getTocIndex(n) over the settled list
getTocIndex(list, n) ==
    LET found == {i \in 1..Len(list) :
                     n >= Start(list, i) /\ n < End(list, i)}
    IN IF found = {} THEN NoRange
       ELSE LET i == CHOOSE j \in found : \A k \in found : j <= k
            IN Range(i, Start(list, i), End(list, i))

\* ------------------------------------------------------------- relocate
\* an earlier and a later relocate event of the renderer
Handlers == {1, 2}
\* snap and scroll are handled as page is
ReplaceReasons == {"snap", "page", "scroll"}
Reasons == {"page", "selection"}

NoLocation == [by |-> 0, index |-> -1, toc |-> NoRange, tocContnet |-> <<>>]
\* { ...progress, tocItem, toc, tocContnet, pageItem, cfi, range } of event h
Location(h) ==
    [by |-> h, index |-> rev[h].index, toc |-> rtoc[h], tocContnet |-> rcontent[h]]

\* the text getIndexContent(i) extracts from page i
PageContent(i) == i

\* After getTocContent has resolved, a handler only has microtasks left
\* up to its last statement: they run before the next event of the
\* renderer and before the next page read completes
MicrotasksDrained == \A g \in Handlers : rpc[g] # "bundle"

\* the renderer dispatches relocate: #onRelocate runs up to
\* await this.book.getTocIndex(index)
onRelocate(h, i, reason) ==
    /\ MicrotasksDrained
    /\ rpc[h] = "idle"
    /\ \A g \in Handlers : g < h => rpc[g] # "idle"
    /\ rev' = [rev EXCEPT ![h] = [index |-> i, reason |-> reason]]
    /\ rpc' = [rpc EXCEPT ![h] = "tocIndex"]
    /\ UNCHANGED <<contentMap, rtoc, rcontent, lastLocation, emitted, extractions>>
    /\ UNCHANGED <<hvars, svars, tvars, nvars, cvars, pvars>>

\* the callbacks of book.getIndexList.then run in the order of the calls
FirstWaiting(h) == \A g \in Handlers : g < h => rpc[g] # "tocIndex"

\* book.getIndexList is fulfilled: getTocIndex resolves and getTocContent(toc)
\* starts: '' for no range, the cached text of the path, or the loop over
\* the pages, which awaits getIndexContent(start)
tocIndexResolved(h) ==
    /\ MicrotasksDrained
    /\ rpc[h] = "tocIndex"
    /\ FirstWaiting(h)
    /\ indexList.state = "fulfilled"
    /\ LET r == getTocIndex(indexList.list, rev[h].index)
       IN /\ rtoc' = [rtoc EXCEPT ![h] = r]
          /\ IF ~r.found
             THEN /\ rcontent' = [rcontent EXCEPT ![h] = <<>>]
                  /\ rpc' = [rpc EXCEPT ![h] = "bundle"]
             ELSE IF Path(r) \in DOMAIN contentMap
             THEN /\ rcontent' = [rcontent EXCEPT ![h] = contentMap[Path(r)]]
                  /\ rpc' = [rpc EXCEPT ![h] = "bundle"]
             ELSE /\ rcontent' = [rcontent EXCEPT ![h] = <<>>]
                  /\ rpc' = [rpc EXCEPT ![h] = "tocContent"]
    /\ UNCHANGED <<contentMap, rev, lastLocation, emitted, extractions>>
    /\ UNCHANGED <<hvars, svars, tvars, nvars, cvars, pvars>>

\* book.getIndexList is rejected: getTocIndex rejects and #onRelocate ends
\* with the exception
tocIndexRejected(h) ==
    /\ MicrotasksDrained
    /\ rpc[h] = "tocIndex"
    /\ FirstWaiting(h)
    /\ indexList.state = "rejected"
    /\ rpc' = [rpc EXCEPT ![h] = "failed"]
    /\ UNCHANGED <<contentMap, rev, rtoc, rcontent, lastLocation, emitted, extractions>>
    /\ UNCHANGED <<hvars, svars, tvars, nvars, cvars, pvars>>

\* getIndexContent(i) resolves in the loop of getTocContent: the page text
\* is appended; after the last page the text is cached under the path
pageExtracted(h) ==
    /\ MicrotasksDrained
    /\ rpc[h] = "tocContent"
    /\ LET i == rtoc[h].start + Len(rcontent[h])
           content == Append(rcontent[h], PageContent(i))
       IN /\ rcontent' = [rcontent EXCEPT ![h] = content]
          /\ IF i + 1 < rtoc[h].end
             THEN /\ UNCHANGED <<contentMap, rpc>>
             ELSE /\ contentMap' = MapSet(contentMap, Path(rtoc[h]), content)
                  /\ rpc' = [rpc EXCEPT ![h] = "bundle"]
    /\ extractions' = extractions + 1
    /\ UNCHANGED <<rev, rtoc, lastLocation, emitted>>
    /\ UNCHANGED <<hvars, svars, tvars, nvars, cvars, pvars>>

\* getCFI(index, range) of the event
RelocateCFI(h) == Cfi(rev[h].index)

\* getTocContent has resolved: lastLocation is set, replaceState(cfi) for
\* the reasons snap, page and scroll, and relocate is emitted
relocated(h) ==
    /\ rpc[h] = "bundle"
    /\ lastLocation' = Location(h)
    /\ emitted' = Append(emitted, Location(h))
    /\ IF rev[h].reason \in ReplaceReasons
       THEN replaceState(RelocateCFI(h))
       ELSE UNCHANGED hvars
    /\ rpc' = [rpc EXCEPT ![h] = "done"]
    /\ UNCHANGED <<contentMap, rev, rtoc, rcontent, extractions>>
    /\ UNCHANGED <<svars, tvars, nvars, cvars, pvars>>

\* ------------------------------------------------- View over the History
\* goToFraction(frac) once renderer.goTo has resolved: pushState of a new
\* object { fraction: frac }
goToFraction(f) ==
    /\ pushState(Frac(f), FALSE)
    /\ UNCHANGED <<svars, tvars, rvars, nvars, cvars, pvars>>

\* close(): among the fields it resets are the registry and the history
close ==
    /\ clear
    /\ searchResults' = EmptyMap
    /\ attached' = [t \in Searches |-> FALSE]
    /\ UNCHANGED <<secs, pc, cur, hits, out, matched, resolves, loaded, overlay, undeleted,
                   opts>>
    /\ lastLocation' = NoLocation
    /\ UNCHANGED <<tvars, nvars, contentMap, rpc, rev, rtoc, rcontent, emitted, extractions, cvars, pvars>>

\* ------------------------------------------------------------ navigation
\* what resolveNavigation(target) returns: a location, undefined after an
\* exception it caught, or the promise of book.resolveHref(target), which
\* is fulfilled with a location or rejected (hrefOk)
resolveNavigation(target, hrefOk) ==
    IF target.t \in {"num", "frac", "cfi"} THEN "location"
    ELSE IF target.t = "href"
    THEN (IF hrefOk THEN "promise" ELSE "rejected")
    ELSE "undefined"

\* the argument select passes to the renderer: { ...obj, select: true } is
\* an object also when obj is undefined
SelectArgument(obj) ==
    IF obj = "undefined" THEN "no-index"
    ELSE IF obj = "promise" THEN "location"
    ELSE obj

\* whether await this.renderer.goTo(arg) returns: the renderer awaits its
\* argument and reads the index of the location, which throws for
\* undefined and for a rejected promise; otherwise the renderer decides
\* (accepts), and an object without an index is an object
rendererGoTo(arg, accepts) ==
    arg \in {"location", "promise", "no-index"} /\ accepts

NoNav == [name |-> "none", resolved |-> "location", navigated |-> TRUE]

\* the branch of goTo and select that catches the exception
navigationCaught(name, target) ==
    /\ op' = [name |-> name, x |-> target]
    /\ pre' = Snapshot
    /\ backPre' = NoSnapshot
    /\ events' = <<>>
    /\ UNCHANGED <<arr, index, neg1>>

\* goTo(target), once renderer.goTo has settled
goTo(target, hrefOk, accepts) ==
    LET resolved == resolveNavigation(target, hrefOk)
    IN /\ IF rendererGoTo(resolved, accepts)
          THEN pushState(target, FALSE)
          ELSE navigationCaught("goTo", target)
       /\ nav' = [name |-> "goTo", resolved |-> resolved,
                  navigated |-> rendererGoTo(resolved, accepts)]
       /\ UNCHANGED <<svars, tvars, rvars, cvars, pvars>>

\* select(target), once renderer.goTo has settled; awaiting a rejected
\* promise of resolveNavigation throws into the catch
select(target, hrefOk, accepts) ==
    LET obj == resolveNavigation(target, hrefOk)
        navigated == obj # "rejected" /\ rendererGoTo(SelectArgument(obj), accepts)
    IN /\ IF navigated
          THEN pushState(target, FALSE)
          ELSE navigationCaught("select", target)
       /\ nav' = [name |-> "select", resolved |-> obj, navigated |-> navigated]
       /\ UNCHANGED <<svars, tvars, rvars, cvars, pvars>>

\* ---------------------------------------------------------- identifiers
\* The CFI grammar (CFI.fake, CFI.parse, CFI.joinIndir, CFI.fromRange,
\* CFI.isCFI) and the identifiers and the resolver a book may bring are not
\* part of the view. A CFI is modelled by its parts, the paths between the
\* indirections, each a sequence of steps { n, id }, and by whether it is
\* a range (parent, start, end) or a point; the last step of the first
\* part carries the section: n = 2 * (index + 1).
Step(n, id) == [n |-> n, id |-> id]
CfiString(parts, span) == [parts |-> parts, span |-> span]

\* CFI.fake.fromIndex(index)
FakeFromIndex(i) == CfiString(<<<<Step(6, FALSE), Step((i + 1) * 2, FALSE)>>>>, FALSE)
\* CFI.fake.toIndex(part): from the last step of the part
FakeToIndex(part) == (part[Len(part)].n - 2) \div 2
\* section.cfi of a book with identifiers of its own: the step of the
\* section with an ID assertion
OwnCfi(i) == CfiString(<<<<Step(6, FALSE), Step((i + 1) * 2, TRUE)>>>>, FALSE)
\* book.resolveCFI(cfi): the section whose step the first part ends with
BookResolveCFI(cfi) ==
    LET part == Head(cfi.parts)
    IN CHOOSE i \in Sections : (i + 1) * 2 = part[Len(part)].n

\* the in-section paths of the ranges tried
RangePaths == {<<Step(4, FALSE), Step(2, FALSE)>>, <<Step(4, FALSE), Step(4, TRUE)>>}
NoRangeGiven == [given |-> FALSE, path |-> <<>>, span |-> FALSE]
RangesGiven == {[given |-> TRUE, path |-> q, span |-> sp] : q \in RangePaths, sp \in BOOLEAN}
\* CFI.fromRange(range)
FromRange(r) == CfiString(<<r.path>>, r.span)
\* CFI.joinIndir(base, cfi)
JoinIndir(base, cfi) == CfiString(base.parts \o cfi.parts, cfi.span)
\* CFI.parse(cfi): { parent, start, end } for a range, else the parts
Parse(cfi) == [isRange |-> cfi.span, parent |-> cfi.parts, parts |-> cfi.parts]

\* getCFI(index, range) for a section with (own) or without a cfi
getCFI(i, r, own) ==
    LET baseCFI == IF own THEN OwnCfi(i) ELSE FakeFromIndex(i)
    IN IF ~r.given THEN baseCFI ELSE JoinIndir(baseCFI, FromRange(r))

resolveCFI_LastPart(cfi, ownResolver) ==
    IF ownResolver THEN BookResolveCFI(cfi)
    ELSE LET parts == Parse(cfi)
             paths == IF parts.isRange THEN parts.parent ELSE parts.parts
         IN FakeToIndex(paths[Len(paths)])

\* resolveCFI(cfi).index for a book with (ownResolver) or without a
\* resolveCFI of its own: CFI.fake.toIndex((parts.parent ?? parts).shift())
resolveCFI(cfi, ownResolver) ==
    IF ownResolver THEN BookResolveCFI(cfi)
    ELSE LET parts == Parse(cfi)
             paths == IF parts.isRange THEN parts.parent ELSE parts.parts
         IN FakeToIndex(Head(paths))

NoIndex == -1
\* resolveNavigation(target).index
navigationIndex(target, ownResolver) ==
    IF resolveNavigation(target, TRUE) # "location" THEN NoIndex
    ELSE IF target.t = "num" THEN target.v
    ELSE IF target.t = "cfi" THEN resolveCFI(target.v, ownResolver)
    ELSE NoIndex

\* cfi = this.getCFI(index, range)
computeIdentifier ==
    /\ ident.stage = "new"
    /\ ident' = [ident EXCEPT !.stage = "cfi",
                              !.cfi = getCFI(ident.index, ident.range, ident.own)]
    /\ UNCHANGED <<hvars, svars, tvars, rvars, nvars, pvars>>

\* this.resolveNavigation(cfi)
resolveIdentifier ==
    /\ ident.stage = "cfi"
    /\ ident' = [ident EXCEPT !.stage = "resolved",
                              !.resolved = navigationIndex(Cfi(ident.cfi),
                                                           ident.ownResolver)]
    /\ UNCHANGED <<hvars, svars, tvars, rvars, nvars, pvars>>

\* ------------------------------------------------------------ page text
\* A text item of textContent.items: str is the string, here the position
\* of the item in the list, or 0 for an item without one (marked content,
\* an empty string); placed tells whether transform is an array of at
\* least 6 numbers; x = transform[4], y = transform[5]
TextItem(str, placed, x, y) == [str |-> str, placed |-> placed, x |-> x, y |-> y]
\* vertical coordinates 5 and 6 apart, and horizontal ones
Ys == {0, 5, 6, 11}
Xs == {0, 1}
\* the items that can stand at position k of the list
ItemsAt(k) ==
    {TextItem(0, TRUE, 0, 0), TextItem(k, FALSE, 0, 0)}
        \cup {TextItem(k, TRUE, x, y) : x \in Xs, y \in Ys}
RECURSIVE ItemLists(_)
ItemLists(n) ==
    IF n = 0 THEN {<<>>}
    ELSE {Append(l, it) : l \in ItemLists(n - 1), it \in ItemsAt(n)}

\* item.str && Array.isArray(item.transform) && item.transform.length >= 6
ValidItem(item) == item.str # 0 /\ item.placed

Abs(n) == IF n < 0 THEN 0 - n ELSE n
Threshold == 5
\* currentY before the first item: undefined
NoY == -1

StartsLine_AtThreshold(currentY, y) ==
    currentY = NoY \/ Abs(currentY - y) >= Threshold

\* currentY === undefined || Math.abs(currentY - y) > 5
StartsLine(currentY, y) ==
    currentY = NoY \/ Abs(currentY - y) > Threshold

\* if (currentLine.length > 0) lines.push(currentLine)
PushLine(lines, currentLine) ==
    IF Len(currentLine) > 0 THEN Append(lines, currentLine) ELSE lines

\* validItems.forEach(...) and the push after it
RECURSIVE GroupLines(_, _, _, _)
GroupLines(items, lines, currentLine, currentY) ==
    IF items = <<>> THEN PushLine(lines, currentLine)
    ELSE LET item == Head(items)
         IN IF StartsLine(currentY, item.y)
            THEN GroupLines(Tail(items), PushLine(lines, currentLine), <<item>>, item.y)
            ELSE GroupLines(Tail(items), lines, Append(currentLine, item), currentY)

\* Array.prototype.sort is stable: an element goes after the elements that
\* do not compare greater than it
InsertAt(sorted, n, e) == SubSeq(sorted, 1, n) \o <<e>> \o SubSeq(sorted, n + 1, Len(sorted))

\* lines.sort((a, b) => b[0].transform[5] - a[0].transform[5])
RECURSIVE SortLines(_)
SortLines(lines) ==
    IF lines = <<>> THEN <<>>
    ELSE LET sorted == SortLines(SubSeq(lines, 1, Len(lines) - 1))
             line == lines[Len(lines)]
         IN InsertAt(sorted,
                     Cardinality({i \in 1..Len(sorted) : sorted[i][1].y >= line[1].y}),
                     line)

\* line.sort((a, b) => a.transform[4] - b.transform[4])
RECURSIVE SortLine(_)
SortLine(line) ==
    IF line = <<>> THEN <<>>
    ELSE LET sorted == SortLine(SubSeq(line, 1, Len(line) - 1))
             item == line[Len(line)]
         IN InsertAt(sorted,
                     Cardinality({i \in 1..Len(sorted) : sorted[i].x <= item.x}),
                     item)

\* the text between the page markers: the lines, joined by newlines, each
\* the strings of its items, joined by spaces
PageText(lines) == [placeholder |-> FALSE, lines |-> lines]
\* [No readable text content found on this page]
Placeholder == [placeholder |-> TRUE, lines |-> <<>>]

\* the text getIndexContent builds from textContent.items
IndexContent(items) ==
    LET validItems == SelectSeq(items, ValidItem)
    IN IF Len(validItems) = 0 THEN Placeholder
       ELSE LET lines == SortLines(GroupLines(validItems, <<>>, <<>>, NoY))
            IN PageText([l \in 1..Len(lines) |->
                            LET line == SortLine(lines[l])
                            IN [k \in 1..Len(line) |-> line[k].str]])

NoPage == [stage |-> "none", items |-> <<>>, text |-> Placeholder]

\* getIndexContent(index), once getPage and getTextContent have resolved
getIndexContent ==
    /\ page.stage = "items"
    /\ page' = [page EXCEPT !.stage = "text", !.text = IndexContent(page.items)]
    /\ UNCHANGED <<hvars, svars, tvars, rvars, nvars, cvars>>

\* ------------------------------------------------------ specifications
InitHistory ==
    /\ arr = <<>>
    /\ index = -1
    /\ neg1 = Undef
    /\ events = <<>>
    /\ op = [name |-> "new", x |-> Undef]
    /\ pre = NoSnapshot
    /\ backPre = NoSnapshot

\* makePDF has set book.toc and getIndexList has not run yet
InitToc ==
    /\ flat = <<>>
    /\ hrefIndex = <<>>
    /\ indexList = Pending

\* a document with an empty outline whose chapter index has settled
InitEmptyToc ==
    /\ toc = Toc(<<>>)
    /\ flat = <<>>
    /\ hrefIndex = <<>>
    /\ indexList = Fulfilled(<<>>)

NoIdent ==
    [stage |-> "none", index |-> 0, range |-> NoRangeGiven, own |-> FALSE,
     ownResolver |-> FALSE, cfi |-> CfiString(<<>>, FALSE), resolved |-> NoIndex]

InitRelocate ==
    /\ contentMap = EmptyMap
    /\ rpc = [h \in Handlers |-> "idle"]
    /\ rev = [h \in Handlers |-> [index |-> 0, reason |-> "page"]]
    /\ rtoc = [h \in Handlers |-> NoRange]
    /\ rcontent = [h \in Handlers |-> <<>>]
    /\ lastLocation = NoLocation
    /\ emitted = <<>>
    /\ extractions = 0

InitSearch ==
    /\ pc = [s \in Searches |-> "new"]
    /\ cur = [s \in Searches |-> 0]
    /\ hits = [s \in Searches |-> 0]
    /\ out = [s \in Searches |-> <<>>]
    /\ matched = [s \in Searches |-> [i \in Sections |-> NotMatched]]
    /\ searchResults = EmptyMap
    /\ opts = [s \in Searches |-> UndefKey]
    /\ attached = [s \in Searches |-> FALSE]
    /\ loaded = {}
    /\ overlay = {}
    /\ undeleted = {}

\* the history of a view whose book is open
Init ==
    /\ InitHistory
    /\ InitSearch
    /\ InitEmptyToc
    /\ InitRelocate
    /\ nav = NoNav
    /\ ident = NoIdent
    /\ page = NoPage
    /\ secs = [i \in Sections |-> TRUE]
    /\ resolves = [v \in Values |-> TRUE]

PushStateAny == \E x \in Entries, same \in BOOLEAN : pushState(x, same) /\ UNCHANGED <<svars, tvars, rvars, nvars, cvars, pvars>>
ReplaceStateAny == \E x \in Entries : replaceState(x) /\ UNCHANGED <<svars, tvars, rvars, nvars, cvars, pvars>>
GoToFractionAny == \E f \in 0..MaxFrac : goToFraction(f)
Back == back /\ UNCHANGED <<svars, tvars, rvars, nvars, cvars, pvars>>
Forward == forward /\ UNCHANGED <<svars, tvars, rvars, nvars, cvars, pvars>>
Clear == clear /\ UNCHANGED <<svars, tvars, rvars, nvars, cvars, pvars>>

Next ==
    \/ PushStateAny
    \/ ReplaceStateAny
    \/ GoToFractionAny
    \/ Back
    \/ Forward
    \/ Clear
    \/ close

Spec == Init /\ [][Next]_vars

\* the search pipeline over any book, while the renderer shows no section
SearchInit ==
    /\ InitHistory
    /\ InitSearch
    /\ InitEmptyToc
    /\ InitRelocate
    /\ nav = NoNav
    /\ ident = NoIdent
    /\ page = NoPage
    /\ secs \in [Sections -> BOOLEAN]
    /\ resolves = [v \in Values |-> TRUE]

\* the steps of the generators of the searches S and of their consumers
SearchSteps(S) ==
    \/ \E s \in S : search(s, UndefKey)
    \/ \E s \in S : searchImported(s)
    \/ \E s \in S, n \in 0..MaxHits : documentCreated(s, n)
    \/ \E s \in S : documentFailed(s)
    \/ \E s \in S : nextSubitems(s)
    \/ \E s \in S : nextSection(s)
    \/ \E s \in S : nextReturn(s)

SearchNext ==
    \/ SearchSteps(Searches)
    \/ clearSearch

SearchSpec == SearchInit /\ [][SearchNext]_vars

\* most matches the matcher yields in the section of a single-section search
MaxMatches == 2
MatchValues == {Value(i, k) : i \in Sections, k \in 1..MaxMatches}

\* searches of one section each over any book
SectionInit ==
    /\ InitHistory
    /\ InitSearch
    /\ InitEmptyToc
    /\ InitRelocate
    /\ nav = NoNav
    /\ ident = NoIdent
    /\ page = NoPage
    /\ secs \in [Sections -> BOOLEAN]
    /\ resolves = [v \in MatchValues |-> TRUE]

SectionNext ==
    \/ \E s \in Searches, i \in Sections : search(s, i)
    \/ \E s \in Searches : searchImported(s)
    \/ \E s \in Searches, n \in 0..MaxMatches : sectionCreated(s, n)
    \/ \E s \in Searches : sectionFailed(s)
    \/ \E s \in Searches : nextMatch(s)
    \/ \E s \in Searches : nextReturn(s)
    \/ clearSearch

SectionSpec == SectionInit /\ [][SectionNext]_vars

\* one search over a book whose sections all have a document, clearSearch,
\* the renderer creating overlayers, and identifiers that may not resolve
OverlayInit ==
    /\ InitHistory
    /\ InitSearch
    /\ InitEmptyToc
    /\ InitRelocate
    /\ nav = NoNav
    /\ ident = NoIdent
    /\ page = NoPage
    /\ secs = [i \in Sections |-> TRUE]
    /\ resolves \in [Values -> BOOLEAN]

CreateOverlayerAny == \E i \in Sections : createOverlayer(i)

OverlayNext ==
    \/ SearchSteps({1})
    \/ clearSearch
    \/ CreateOverlayerAny

OverlaySpec == OverlayInit /\ [][OverlayNext]_vars

\* the chapter index of any document and the relocate events of its view
TocInit ==
    /\ InitHistory
    /\ InitSearch
    /\ InitToc
    /\ InitRelocate
    /\ nav = NoNav
    /\ ident = NoIdent
    /\ page = NoPage
    /\ toc \in {NoOutline} \cup {Toc(o) : o \in Outlines}
    /\ secs = [i \in Sections |-> TRUE]
    /\ resolves = [v \in Values |-> TRUE]

TocNext ==
    \/ getIndexList
    \/ \E h \in Handlers, i \in Pages, reason \in Reasons : onRelocate(h, i, reason)
    \/ \E h \in Handlers : tocIndexResolved(h)
    \/ \E h \in Handlers : tocIndexRejected(h)
    \/ \E h \in Handlers : pageExtracted(h)
    \/ \E h \in Handlers : relocated(h)

TocSpec == TocInit /\ [][TocNext]_vars

\* goTo and select on the history of an open book
Targets == {Num(0), Cfi(0), Href(0), Malformed}

\* the popstate listener of the view, run by the dispatch in back() and
\* forward(): resolveNavigation(detail.state) and renderer.goTo(resolved),
\* and no call of the history
onPopState(dispatched) ==
    IF dispatched = <<>> THEN NoNav
    ELSE [name |-> "popstate",
          resolved |-> resolveNavigation(dispatched[1].state, TRUE),
          navigated |-> TRUE]

NavBack == back /\ nav' = onPopState(events') /\ UNCHANGED <<svars, tvars, rvars, cvars, pvars>>
NavForward == forward /\ nav' = onPopState(events') /\ UNCHANGED <<svars, tvars, rvars, cvars, pvars>>

NavNext ==
    \/ \E target \in Targets, hrefOk, accepts \in BOOLEAN : goTo(target, hrefOk, accepts)
    \/ \E target \in Targets, hrefOk, accepts \in BOOLEAN : select(target, hrefOk, accepts)
    \/ NavBack
    \/ NavForward

NavSpec == Init /\ [][NavNext]_vars

\* an identifier computed for any section and range of any book, and
\* resolved again
CfiInit ==
    /\ InitHistory
    /\ InitSearch
    /\ InitEmptyToc
    /\ InitRelocate
    /\ nav = NoNav
    /\ page = NoPage
    /\ secs = [i \in Sections |-> TRUE]
    /\ resolves = [v \in Values |-> TRUE]
    /\ \E i \in Sections, r \in {NoRangeGiven} \cup RangesGiven, own, ownResolver \in BOOLEAN :
           ident = [NoIdent EXCEPT !.stage = "new", !.index = i, !.range = r,
                                   !.own = own, !.ownResolver = ownResolver]

CfiNext ==
    \/ computeIdentifier
    \/ resolveIdentifier

CfiSpec == CfiInit /\ [][CfiNext]_vars

\* the text of a page with any list of text items
PageInit ==
    /\ InitHistory
    /\ InitSearch
    /\ InitEmptyToc
    /\ InitRelocate
    /\ nav = NoNav
    /\ ident = NoIdent
    /\ secs = [i \in Sections |-> TRUE]
    /\ resolves = [v \in Values |-> TRUE]
    /\ \E n \in 0..MaxItems : \E items \in ItemLists(n) :
           page = [NoPage EXCEPT !.stage = "items", !.items = items]

PageNext == getIndexContent

PageSpec == PageInit /\ [][PageNext]_vars

\* ------------------------------------------------------ history claims
PreTop == At(pre.arr, pre.neg1, pre.index)

\* C1: pushState with an entry equal to the entry at the current position
\* (same index, same string, or a fractional record with the same fraction,
\* 0 included) leaves the length and the position unchanged and emits no
\* index-change
C1_PushStateDeduplicates ==
    (op.name = "pushState" /\ pre.index >= 0 /\ PreTop = op.x)
        => (Len(arr) = Len(pre.arr) /\ index = pre.index /\ events = <<>>)

\* C2: the stack never holds two adjacent identical entries
C2_NoAdjacentDuplicates ==
    \A i \in 1 .. Len(arr) - 1 : arr[i] # arr[i + 1]

\* a pushState that was not a no-op
Pushed == op.name = "pushState" /\ <<arr, index>> # <<pre.arr, pre.index>>

\* C3: a pushState that is not a no-op stores the entry at old position + 1,
\* discards everything after it and emits exactly one index-change; then
\* position = length - 1, canGoForward is false and the entries at
\* 0..old position are unchanged
C3_PushTruncatesForward ==
    Pushed =>
        /\ index = pre.index + 1
        /\ Len(arr) = pre.index + 2
        /\ arr[index + 1] = op.x
        /\ index = Len(arr) - 1
        /\ ~canGoForward
        /\ \A i \in 1 .. pre.index + 1 : arr[i] = pre.arr[i]
        /\ events = <<IndexChange>>

C3_Witness == Pushed /\ pre.index >= 0 /\ pre.index < Len(pre.arr) - 1

\* C4: when canGoBack holds, back() immediately followed by forward()
\* restores the position and every entry, and the popstate of forward()
\* carries the entry that was on top before back()
C4_BackForwardRestores ==
    (op.name = "forward" /\ backPre # NoSnapshot) =>
        /\ arr = backPre.arr
        /\ index = backPre.index
        /\ neg1 = backPre.neg1
        /\ events # <<>>
        /\ events[1] = PopState(At(backPre.arr, backPre.neg1, backPre.index))

C4_Witness ==
    /\ op.name = "forward"
    /\ backPre # NoSnapshot
    /\ index >= 1
    /\ arr[index] # arr[index + 1]

Unmoved == arr = pre.arr /\ index = pre.index /\ neg1 = pre.neg1 /\ events = <<>>
MovedTo(i) ==
    /\ index = i
    /\ arr = pre.arr
    /\ neg1 = pre.neg1
    /\ events = <<PopState(At(arr, neg1, i)), IndexChange>>

\* C5: back() moves exactly when canGoBack held and forward() exactly when
\* canGoForward held; a move is by one position and emits one popstate with
\* the entry at the new position directly followed by one index-change; a
\* call at a boundary changes nothing and emits nothing
C5_BackForwardStep ==
    /\ op.name = "back" =>
           IF pre.index > 0 THEN MovedTo(pre.index - 1) ELSE Unmoved
    /\ op.name = "forward" =>
           IF pre.index < Len(pre.arr) - 1 THEN MovedTo(pre.index + 1) ELSE Unmoved

C5_Witness == op.name = "back" /\ pre.index > 0 /\ Len(events) = 2

\* C6: -1 <= position <= length - 1, and position = -1 exactly when the
\* stack is empty
C6_PositionRange ==
    /\ index >= -1
    /\ index <= Len(arr) - 1
    /\ (index = -1 <=> Len(arr) = 0)

C6_Witness == op.name = "clear" /\ pre.index >= 1 /\ index = -1 /\ arr = <<>>

\* C21: replaceState(entry) overwrites the entry at the current position
\* and nothing else: the position, the length and every other entry are as
\* before, canGoBack and canGoForward keep their values, and nothing is
\* emitted
C21_ReplaceStateFrame ==
    op.name = "replaceState" =>
        /\ index = pre.index
        /\ Len(arr) = Len(pre.arr)
        /\ index >= 0 => arr[index + 1] = op.x
        /\ \A i \in 1 .. Len(arr) : i # index + 1 => arr[i] = pre.arr[i]
        /\ canGoBack <=> pre.index > 0
        /\ canGoForward <=> pre.index < Len(pre.arr) - 1
        /\ events = <<>>

\* an entry in the middle of the stack was overwritten with another value
C21_Witness ==
    /\ op.name = "replaceState"
    /\ index >= 1
    /\ index < Len(arr) - 1
    /\ arr # pre.arr

\* C27: pushState(x) on an empty history, whatever replaceState calls came
\* before it, gives length 1 and position 0 with x stored and emits one
\* index-change
C27_PushOnEmptyRecords ==
    (op.name = "pushState" /\ pre.index = -1) =>
        /\ Len(arr) = 1
        /\ index = 0
        /\ arr[1] = op.x
        /\ events = <<IndexChange>>

\* ------------------------------------------------------- search claims
Count(q, x) == Cardinality({p \in 1 .. Len(q) : q[p] = x})
HasSubitems(s, i) == \E p \in 1 .. Len(out[s]) : out[s][p].k = "subitems" /\ out[s][p].i = i

\* the consumer has driven search s until next() returned done or threw
Consumed(s) == pc[s] \in {"closed", "failed"}

\* C7: in a whole-book search consumed to the end every scanned section
\* has exactly one heartbeat and the sequence ends with the sentinel,
\* yielded once
C7_HeartbeatPerSectionThenDone ==
    \A s \in Searches : Consumed(s) =>
        /\ \A i \in Scannable(0) : Count(out[s], Progress(i)) = 1
        /\ Count(out[s], Done) = 1
        /\ out[s][Len(out[s])] = Done

\* search s is past section i for good
Past(s, i) ==
    /\ pc[s] \notin {"new", "import"}
    /\ \/ cur[s] > i
       \/ pc[s] = "subitems" /\ cur[s] = i

C9_FirstItemAfterClear ==
    [][\A s \in Searches :
          (Len(out[s]) = 0 /\ Len(out'[s]) = 1) =>
              /\ \A r \in Registered' : r.by >= s
              /\ \A r \in undeleted' : r.by >= s]_vars

Yielded(s) == pc[s] \in {"progress", "subitems", "sentinel"}
\* the consumer of search s asks for the next item
NextRequested(s) == nextSubitems(s) \/ nextSection(s) \/ nextReturn(s)
RegisteredBy(s) == {r \in Registered : r.by = s}

\* C11: once the consumer holds an item, a step that is not its request
\* for the next item materializes no document for the search, runs its
\* matcher no further and registers no further record of it
C11_AbandonedSearchIsInert ==
    [][\A s \in Searches :
          (Yielded(s) /\ ~NextRequested(s)) =>
              /\ pc'[s] = pc[s]
              /\ cur'[s] = cur[s]
              /\ matched'[s] = matched[s]
              /\ out'[s] = out[s]
              /\ {r \in Registered' : r.by = s} \subseteq RegisteredBy(s)]_vars

\* the earlier search was abandoned at its first heartbeat and the later
\* one has run to its end since
C11_Witness ==
    /\ pc[1] = "progress"
    /\ cur[1] = 0
    /\ Len(out[1]) = 1
    /\ pc[2] = "closed"
    /\ Len(out[2]) > 1

\* C12: a materialization failure in one section does not abort a
\* whole-book search: the generator does not end by throwing, and a search
\* consumed to its end has reported every later section it could
\* materialize and has yielded the sentinel
C12_FailureDoesNotAbortScan ==
    \A s \in Searches :
        /\ pc[s] # "failed"
        /\ Consumed(s) =>
               /\ \A i \in Scannable(0) :
                      matched[s][i] # NotMatched => Count(out[s], Progress(i)) = 1
               /\ Count(out[s], Done) = 1

\* the records the registry holds under key k
Under(m, k) == IF k \in DOMAIN m THEN {m[k][j] : j \in 1..Len(m[k])} ELSE {}

\* C23: when a search hands its consumer a hit record of a section, or a
\* match of a single-section search, the registry holds under the index of
\* that section the record of every hit reported for it
C23_RegisteredBeforeReported ==
    [][\A s \in Searches :
          Len(out'[s]) = Len(out[s]) + 1 =>
              LET item == out'[s][Len(out'[s])]
              IN /\ item.k = "subitems" =>
                        \A j \in 1..item.n :
                            Item(s, item.i, j) \in Under(searchResults', item.i)
                 /\ item.k = "match" =>
                        \A j \in 1..item.n :
                            Item(s, item.i, j) \in Under(searchResults', item.i)]_vars

\* search s was called with a section index
SectionSearch(s) == pc[s] # "new" /\ opts[s] # UndefKey

\* what holds of a single-section search whether or not its section
\* materializes: no other section is materialized, the items are the
\* matches in match order, then the sentinel, with no heartbeat, and its
\* records are under the index of its section only
SectionSearchShape(s) ==
    /\ \A j \in Sections \ {opts[s]} : matched[s][j] = NotMatched
    /\ \A p \in 1..Len(out[s]) :
           out[s][p] = IF p <= hits[s] THEN Match(opts[s], p) ELSE Done
    /\ Len(out[s]) <= hits[s] + 1
    /\ \A k \in DOMAIN searchResults \ {opts[s]} :
           \A r \in Under(searchResults, k) : r.by # s

\* C24 as claimed: a single-section search materializes only its section,
\* yields one item per match in match order and no heartbeat, registers
\* only under the index of its section, and ends with the sentinel
C24_SingleSectionSearch ==
    \A s \in Searches : SectionSearch(s) =>
        /\ SectionSearchShape(s)
        /\ Consumed(s) =>
               /\ out[s] # <<>>
               /\ out[s][Len(out[s])] = Done
               /\ Len(out[s]) = matched[s][opts[s]] + 1

\* C24: a single-section search materializes only its section, yields one
\* item per match in match order and no heartbeat, and registers only
\* under the index of its section; when the document of the section
\* materializes the items end with the sentinel, and when it does not the
\* search ends by throwing, with no item yielded and no record registered
C24_SingleSectionSearchOrFailure ==
    \A s \in Searches : SectionSearch(s) =>
        /\ SectionSearchShape(s)
        /\ pc[s] \in {"sentinel", "closed"} =>
               /\ Len(out[s]) = matched[s][opts[s]] + 1
               /\ out[s][Len(out[s])] = Done
        /\ pc[s] = "failed" =>
               /\ out[s] = <<>>
               /\ matched[s][opts[s]] = NotMatched
               /\ \A r \in Registered : r.by # s

\* a search of the last section has yielded two matches and the sentinel
\* and its records are in the registry
C24_Witness ==
    \E s \in Searches :
        /\ pc[s] = "closed"
        /\ opts[s] = NSections - 1
        /\ Len(out[s]) >= 3
        /\ Cardinality(Under(searchResults, opts[s])) >= 2

\* search s is running and the registry has been emptied since it stored
\* its list: clearSearch() has run while it was suspended
ClearedSince(s) == pc[s] \notin {"new", "import"} /\ DOMAIN searchResults = {}

\* C28: the registry holds records of the most recently invoked search
\* only, and a search that was suspended when clearSearch() ran adds no
\* record when it resumes
C28_RegistryOfLatestSearch ==
    /\ [](\A r \in Registered : \A s \in Searches : s > r.by => pc[s] = "new")
    /\ [][\A s \in Searches :
             ClearedSince(s) => \A r \in Registered' : r.by # s]_vars

\* ------------------------------------------------ chapter index claims
\* the hrefs of all entries of an outline; the href of an entry is its path
\* from the root, so the depth of an entry is the length of its href - 1
RECURSIVE Hrefs(_)
Hrefs(items) ==
    UNION {{items[i].href} \cup Hrefs(items[i].subitems) : i \in 1..Len(items)}

\* p comes before q in the pre-order of the outline
PreOrderLess(p, q) ==
    \E n \in 0..Len(p) :
        /\ n <= Len(q)
        /\ \A j \in 1..n : p[j] = q[j]
        /\ \/ n = Len(p) /\ n < Len(q)
           \/ n < Len(p) /\ n < Len(q) /\ p[n + 1] < q[n + 1]

PreOrderRank(items, p) == Cardinality({q \in Hrefs(items) : PreOrderLess(q, p)}) + 1

Flattened == toc.defined /\ indexList # Pending

\* C13: flatten returns one entry per node of the outline, in pre-order,
\* each with its depth as level (0 for top-level entries)
C13_FlattenPreOrder ==
    Flattened =>
        /\ Len(flat) = Cardinality(Hrefs(toc.items))
        /\ \A k \in 1..Len(flat) :
               /\ flat[k].k = "obj"
               /\ PreOrderRank(toc.items, flat[k].href) = k
               /\ flat[k].level = Len(flat[k].href) - 1

\* an outline with a nested entry followed by a second top-level entry
C13_Witness ==
    /\ Flattened
    /\ \E k \in 2..Len(flat) : flat[k - 1].level > 0 /\ flat[k].level = 0

\* C14: without an outline the chapter index is built all the same, with
\* ceil(N / 10) boundaries, each 10 sections after the previous one and
\* none beyond the section count N
C14_UniformIndexWithoutOutline ==
    (~toc.defined /\ indexList # Pending) =>
        /\ indexList.state = "fulfilled"
        /\ Len(indexList.list) = (NPages + 9) \div 10
        /\ \A k \in 1..Len(indexList.list) :
               /\ indexList.list[k].index <= NPages
               /\ k > 1 => indexList.list[k].index = indexList.list[k - 1].index + 10

\* a chapter index as the spec means it: boundaries inside the document, in
\* ascending order
ValidIndexList(list) ==
    /\ Len(list) > 0
    /\ \A k \in 1..Len(list) : list[k].index \in Pages
    /\ \A k \in 2..Len(list) : list[k - 1].index < list[k].index

\* handler h has the result of its getTocIndex lookup
LookedUp(h) == rpc[h] \in {"tocContent", "bundle", "done"}

\* C15: over a chapter index, the lookup of any section index n gives a
\* range [start, end) with start <= n < end, also before the first
\* boundary and in the last entry's range, and the lookup of any index
\* inside a returned range gives that same range
C15_ChapterRangesPartition ==
    (indexList.state = "fulfilled" /\ ValidIndexList(indexList.list)) =>
        \A h \in Handlers : LookedUp(h) =>
            /\ rtoc[h].found
            /\ rtoc[h].start <= rev[h].index
            /\ rev[h].index < rtoc[h].end
            /\ \A g \in Handlers :
                   (/\ LookedUp(g)
                    /\ rev[g].index >= rtoc[h].start
                    /\ rev[g].index < rtoc[h].end) => rtoc[g] = rtoc[h]

\* C16: a destination that cannot be resolved is contained to its entry:
\* the build completes with one entry per kept outline entry, and every
\* entry whose destination resolved carries the resolved index
C16_ResolutionFailureContained ==
    Flattened =>
        /\ indexList.state = "fulfilled"
        /\ Len(indexList.list) = Len(hrefIndex)
        /\ \A k \in 1..Len(hrefIndex) :
               /\ indexList.list[k].href = SelectSeq(flat, KeepInIndex)[k].href
               /\ hrefIndex[k] # Unresolved => indexList.list[k].index = hrefIndex[k]

\* the entries the chapter index is to keep when some entry is nested
SubChapterOrLeaf(item) ==
    item.level = 2 \/ (item.level <= 1 /\ Len(item.subitems) = 0)
\* the selection of the chapter index as stated
Selection(entries) ==
    IF \E k \in 1..Len(entries) : entries[k].level \in {1, 2}
    THEN SelectSeq(entries, SubChapterOrLeaf)
    ELSE entries

\* C22: the chapter index has one entry per selected outline entry, in
\* outline order: the entries at level 2 and the childless entries at
\* level 0 or 1 when some entry has level 1 or 2, and every entry of a
\* flat outline
C22_IndexEntrySelection ==
    (Flattened /\ indexList.state = "fulfilled") =>
        /\ Len(indexList.list) = Len(Selection(flat))
        /\ \A k \in 1..Len(indexList.list) :
               indexList.list[k].href = Selection(flat)[k].href

\* ----------------------------------------------------- relocate claims
\* the text of the pages start..end-1 of a range, in ascending order
PagesText(start, end) == [k \in 1..(end - start) |-> PageContent(start + k - 1)]

\* C19: a chapter text is built from the pages start..end-1 in ascending
\* order, each once; the cache holds exactly that under the path, keeps it,
\* and a getTocContent call for a cached path returns the cached text
\* without extracting a page
C19_ContentMemoizedByPath ==
    /\ [](\A p \in DOMAIN contentMap : contentMap[p] = PagesText(p[1], p[2]))
    /\ [](\A h \in Handlers :
             (rpc[h] \in {"bundle", "done"} /\ rtoc[h].found) =>
                 rcontent[h] = PagesText(rtoc[h].start, rtoc[h].end))
    /\ [][/\ \A p \in DOMAIN contentMap :
                p \in DOMAIN contentMap' /\ contentMap'[p] = contentMap[p]
           /\ \A h \in Handlers :
                (/\ rpc[h] = "tocIndex"
                 /\ rpc'[h] # "tocIndex"
                 /\ rtoc'[h].found
                 /\ Path(rtoc'[h]) \in DOMAIN contentMap) =>
                    /\ rpc'[h] = "bundle"
                    /\ rcontent'[h] = contentMap[Path(rtoc'[h])]
                    /\ extractions' = extractions]_vars

\* both handlers have the text of the same two-page chapter and the pages
\* were extracted for one of them only
C19_Witness ==
    /\ rpc[1] = "done"
    /\ rpc[2] \in {"bundle", "done"}
    /\ rtoc[1].found
    /\ rtoc[2] = rtoc[1]
    /\ rtoc[1].end - rtoc[1].start >= 2
    /\ extractions = rtoc[1].end - rtoc[1].start

\* C20: the handling of a relocate event does not end without a location
\* bundle: it never ends by an exception, and once it has ended a relocate
\* notification for the event has been emitted
C20_RelocateProducesBundle ==
    \A h \in Handlers :
        /\ rpc[h] # "failed"
        /\ rpc[h] = "done" => \E k \in 1..Len(emitted) : emitted[k].by = h

\* the handling of event h ends in this step, by its last statement or by
\* an exception
Ends(h) == rpc[h] \notin {"done", "failed"} /\ rpc'[h] \in {"done", "failed"}

\* C26: the handling of a relocate event leaves the length and the
\* position of the history as they are and emits no history notification;
\* when the reason is snap, page or scroll the entry at the current
\* position has become the identifier of the new location and nothing else
\* has changed, and for any other reason the history is unchanged; the
\* popstate listener pushes no entry
C26_RelocateOnlyReplaces ==
    /\ [](nav.name = "popstate" => (arr = pre.arr /\ neg1 = pre.neg1))
    /\ [][\A h \in Handlers : Ends(h) =>
             /\ index' = index
             /\ Len(arr') = Len(arr)
             /\ IF rev[h].reason \in ReplaceReasons
                THEN /\ At(arr', neg1', index) = RelocateCFI(h)
                     /\ \A i \in 0 .. Len(arr) - 1 :
                            i # index => At(arr', neg1', i) = At(arr, neg1, i)
                     /\ events' = <<>>
                ELSE UNCHANGED hvars]_vars

\* C29: once the handlers of an earlier and a later relocate event have
\* both finished, lastLocation and the last relocate notification are
\* those of the later event, and so is the history entry if the later
\* event was one that replaces it
C29_LaterRelocateWins ==
    \A g, h \in Handlers :
        (g < h /\ rpc[g] = "done" /\ rpc[h] = "done") =>
            /\ lastLocation.by = h
            /\ emitted[Len(emitted)].by = h
            /\ rev[h].reason \in ReplaceReasons =>
                   At(arr, neg1, index) = RelocateCFI(h)

\* --------------------------------------------------- navigation claims
\* the last call was a navigation that failed: the target did not resolve
\* to a location or the renderer rejected the navigation
NavigationFailed ==
    /\ nav.name \in {"goTo", "select"}
    /\ nav.resolved \in {"undefined", "rejected"} \/ ~nav.navigated

\* C17: a goTo or select that fails, because the target does not resolve
\* or because the renderer rejects, leaves the entries and the position of
\* the history as they were, emits no index-change and ends in its catch
C17_FailedNavigationChangesNothing ==
    NavigationFailed =>
        /\ arr = pre.arr
        /\ index = pre.index
        /\ neg1 = pre.neg1
        /\ events = <<>>
        /\ op.name = nav.name

\* C18: the identifier getCFI gives for a section index and an optional
\* range resolves to a location with that index, for sections with and
\* without a base identifier of their own and for books with and without
\* a resolver of their own
C18_IdentifierRoundTrip ==
    ident.stage = "resolved" => ident.resolved = ident.index

\* a range in a later section with its own identifier, resolved by the view
C18_Witness ==
    /\ ident.stage = "resolved"
    /\ ident.index > 0
    /\ ident.range.given
    /\ ident.range.span
    /\ ident.own
    /\ ~ident.ownResolver

\* ---------------------------------------------------- page text claims
\* the positions of the fragments that have a string and a placement; the
\* string of the fragment at position k is k
ValidPositions ==
    {k \in 1..Len(page.items) : page.items[k].str # 0 /\ page.items[k].placed}
\* where the strings of the text are: <<line, place in the line>>
Places ==
    {pl \in (1..MaxItems) \X (1..MaxItems) :
        pl[1] <= Len(page.text.lines) /\ pl[2] <= Len(page.text.lines[pl[1]])}
StringAt(pl) == page.text.lines[pl[1]][pl[2]]
\* the line of the text the fragment at position k is in
LineOf(k) == CHOOSE l \in 1..Len(page.text.lines) :
                 \E j \in 1..Len(page.text.lines[l]) : page.text.lines[l][j] = k
\* the first fragment of line l in input order
FirstOf(l) ==
    LET members == {page.text.lines[l][j] : j \in 1..Len(page.text.lines[l])}
    IN CHOOSE k \in members : \A m \in members : k <= m
\* the valid fragment before the one at position k in input order, 0 if none
Before(k) ==
    LET earlier == {p \in ValidPositions : p < k}
    IN IF earlier = {} THEN 0 ELSE CHOOSE p \in earlier : \A q \in earlier : q <= p

\* C25: the text of a page has the string of every fragment with a string
\* and a placement exactly once and no other; in input order a fragment is
\* in the line of the fragment before it exactly when its vertical
\* coordinate is within 5 of that line's first fragment, and is the first
\* of a new line otherwise; the lines are in descending order of the
\* vertical coordinate of their first fragment and the fragments of a line
\* in ascending order of the horizontal coordinate; without such a
\* fragment the text is the placeholder
C25_PageTextReconstruction ==
    page.stage = "text" =>
        IF ValidPositions = {} THEN page.text = Placeholder
        ELSE /\ ~page.text.placeholder
             /\ \A pl \in Places : StringAt(pl) \in ValidPositions
             /\ \A k \in ValidPositions :
                    Cardinality({pl \in Places : StringAt(pl) = k}) = 1
             /\ \A k \in ValidPositions :
                    IF Before(k) = 0 THEN FirstOf(LineOf(k)) = k
                    ELSE LET first == FirstOf(LineOf(Before(k)))
                         IN IF Abs(page.items[first].y - page.items[k].y) <= 5
                            THEN LineOf(k) = LineOf(Before(k))
                            ELSE /\ LineOf(k) # LineOf(Before(k))
                                 /\ FirstOf(LineOf(k)) = k
             /\ \A l \in 2..Len(page.text.lines) :
                    page.items[FirstOf(l - 1)].y >= page.items[FirstOf(l)].y
             /\ \A l \in 1..Len(page.text.lines) :
                    \A j \in 2..Len(page.text.lines[l]) :
                        page.items[page.text.lines[l][j - 1]].x
                            <= page.items[page.text.lines[l][j]].x

\* the second fragment joined the line of the first, 5 below it and to its
\* left, and the third started a line higher on the page
C25_Witness ==
    /\ page.stage = "text"
    /\ page.text.lines = <<<<3>>, <<2, 1>>>>
    /\ Abs(page.items[1].y - page.items[2].y) = 5
====
